---- MODULE Spec2Model ----
(***************************************************************************)
(* Model of backend/app.py: the request pipeline of the video summariser.  *)
(* Strings are sequences of one-character strings; an LLM reply is a       *)
(* sequence of lexical tokens.  External providers (the transcript API,    *)
(* the chat-completion API) are the environment: each blocking call is a   *)
(* point where the provider's outcome is chosen nondeterministically.      *)
(***************************************************************************)
EXTENDS Integers, Sequences, FiniteSets, TLC

VARIABLES
    pc,          \* position of the handler: idle, listing, fetching, completing, done
    endpoint,    \* which route is being served
    request,     \* the JSON body of the request being served
    video_id,    \* summarize(): local video_id
    track,       \* get_youtube_transcript(): local transcript (the selected track)
    transcript,  \* summarize(): local transcript (the joined text)
    prompt,      \* the prompt handed to openai.ChatCompletion.create
    llm_reply,   \* what the chat-completion provider returned
    signals,     \* exceptions the transcript provider raised during this request
    calls,       \* external calls issued during this request, in order
    responses    \* HTTP responses returned for this request

vars == <<pc, endpoint, request, video_id, track, transcript, prompt,
          llm_reply, signals, calls, responses>>

(***************************************************************************)
(* Bounds of the model                                                     *)
(***************************************************************************)
MaxParams == 1
MaxFragments == 2
MaxTracks == 2
MaxReplyLen == 4

(***************************************************************************)
(* Generic helpers                                                         *)
(***************************************************************************)
SeqsUpTo(S, n) == UNION {[1..k -> S] : k \in 0..n}

RECURSIVE Flatten(_)
Flatten(ss) == IF ss = <<>> THEN <<>> ELSE Head(ss) \o Flatten(Tail(ss))

Min(a, b) == IF a < b THEN a ELSE b

\* Python slice s[start:end] for 0 <= start and 0 <= end
Slice(s, start, end) == SubSeq(s, start + 1, Min(end, Len(s)))

(***************************************************************************)
(* URL Resolver: extract_video_id                                          *)
(***************************************************************************)
Scheme == <<"h","t","t","p","s",":","/","/">>
WatchLit == <<"y","o","u","t","u","b","e",".","c","o","m","/","w","a","t","c","h","?">>
WatchVLit == WatchLit \o <<"v","=">>
ShortLit == <<"y","o","u","t","u",".","b","e","/">>
EmbedLit == <<"y","o","u","t","u","b","e",".","c","o","m","/","e","m","b","e","d","/">>
VLit == <<"v","=">>

\* the class [^&\n?#] excludes these characters
StopChars == {"&", "\n", "?", "#"}

MatchAt(s, i, lit) ==
    /\ i >= 1
    /\ i + Len(lit) - 1 <= Len(s)
    /\ SubSeq(s, i, i + Len(lit) - 1) = lit

\* ([^&\n?#]+) starting at position j: the index of the last character of the
\* greedy run (j - 1 when the run is empty and the group fails)
RunEnd(s, j) ==
    CHOOSE e \in (j - 1)..Len(s) :
        /\ \A k \in j..e : s[k] \notin StopChars
        /\ (e = Len(s) \/ s[e + 1] \in StopChars)

Capture(s, j) == SubSeq(s, j, RunEnd(s, j))

NoMatch == [found |-> FALSE, group1 |-> <<>>]

\* r'(?:youtube\.com\/watch\?v=|youtu\.be\/|youtube\.com\/embed\/)([^&\n?#]+)'
Pattern1Alts == <<WatchVLit, ShortLit, EmbedLit>>

Pattern1At(s, i) ==
    {a \in 1..Len(Pattern1Alts) :
        /\ MatchAt(s, i, Pattern1Alts[a])
        /\ RunEnd(s, i + Len(Pattern1Alts[a])) >= i + Len(Pattern1Alts[a])}

SearchPattern1(s) ==
    LET hits == {i \in 1..Len(s) : Pattern1At(s, i) # {}}
    IN  IF hits = {} THEN NoMatch
        ELSE LET i == CHOOSE x \in hits : \A y \in hits : x <= y
                 a == CHOOSE x \in Pattern1At(s, i) : \A y \in Pattern1At(s, i) : x <= y
             IN  [found |-> TRUE, group1 |-> Capture(s, i + Len(Pattern1Alts[a]))]

\* r'youtube\.com\/watch\?.*v=([^&\n?#]+)': the positions of "v=" that the
\* greedy .* (any character but a newline) can reach from the literal at i
Pattern2At(s, i) ==
    IF ~MatchAt(s, i, WatchLit) THEN {}
    ELSE {j \in (i + Len(WatchLit))..Len(s) :
            /\ \A k \in (i + Len(WatchLit))..(j - 1) : s[k] # "\n"
            /\ MatchAt(s, j, VLit)
            /\ RunEnd(s, j + Len(VLit)) >= j + Len(VLit)}

SearchPattern2(s) ==
    LET hits == {i \in 1..Len(s) : Pattern2At(s, i) # {}}
    IN  IF hits = {} THEN NoMatch
        ELSE LET i == CHOOSE x \in hits : \A y \in hits : x <= y
                 \* .* is greedy: the last "v=" that still lets the group match
                 j == CHOOSE x \in Pattern2At(s, i) : \A y \in Pattern2At(s, i) : x >= y
             IN  [found |-> TRUE, group1 |-> Capture(s, j + Len(VLit))]

\* the result of extract_video_id; found = FALSE stands for None
extract_video_id(url) ==
    IF SearchPattern1(url).found THEN SearchPattern1(url)
    ELSE IF SearchPattern2(url).found THEN SearchPattern2(url)
    ELSE NoMatch

(***************************************************************************)
(* The URLs requests carry                                                 *)
(***************************************************************************)
Ids == {<<"a","b","c">>, <<"X","-","1">>}
Params == {<<"t","=","5">>, <<"r","v","=","z">>}
ParamLists == SeqsUpTo(Params, MaxParams)

Amp == <<"&">>
Quest == <<"?">>

\* p1&p2&...& : parameters placed before v=
Before(ps) == Flatten([k \in 1..Len(ps) |-> ps[k] \o Amp])
\* &p1&p2... : parameters placed after v=<id>
After(ps) == Flatten([k \in 1..Len(ps) |-> Amp \o ps[k]])
\* ?p1&p2... : the query of a short or embed URL
Query(ps) == Flatten([k \in 1..Len(ps) |-> (IF k = 1 THEN Quest ELSE Amp) \o ps[k]])

WatchUrl(id, before, after) == Scheme \o WatchLit \o Before(before) \o VLit \o id \o After(after)
ShortUrl(id, q) == Scheme \o ShortLit \o id \o Query(q)
EmbedUrl(id, q) == Scheme \o EmbedLit \o id \o Query(q)

SupportedUrls ==
    {WatchUrl(id, b, a) : id \in Ids, b \in ParamLists, a \in ParamLists}
        \cup {ShortUrl(id, q) : id \in Ids, q \in ParamLists}
        \cup {EmbedUrl(id, q) : id \in Ids, q \in ParamLists}

UnrecognisedUrls ==
    {<<"n","o","t"," ","a"," ","u","r","l">>,
     Scheme \o WatchLit \o <<"t","=","5">>,
     Scheme \o WatchVLit}

EmptyString == <<>>

(***************************************************************************)
(* Transcript Fetcher: get_youtube_transcript                              *)
(***************************************************************************)
Languages == {"en", "de"}
TrackLists == SeqsUpTo(Languages, MaxTracks)

\* the three exception classes imported on line 4, and any other failure
Unavailable == {"TranscriptsDisabled", "NoTranscriptFound", "VideoUnavailable"}
OtherFailure == "ConnectionError"
ProviderFailures == Unavailable \cup {OtherFailure}

\* str(e) of the exceptions the handler can see
Str(exc) == <<exc>>

NoTranscriptMsg == <<"No transcript available for this video.">>
FailedTranscriptPrefix == "Failed to get transcript: "

Ok(v) == [ok |-> TRUE, val |-> v, err |-> <<>>]
Raise(msg) == [ok |-> FALSE, val |-> <<>>, err |-> msg]

\* lines 53-56: the two except clauses of get_youtube_transcript
MapTranscriptError(exc) ==
    IF exc \in Unavailable THEN Raise(NoTranscriptMsg)
    ELSE Raise(<<FailedTranscriptPrefix>> \o Str(exc))

\* transcript_list.find_transcript(['en']): the English track, or NoTranscriptFound
find_transcript(tracks) ==
    IF \E k \in 1..Len(tracks) : tracks[k] = "en"
    THEN [raised |-> "", track |-> "en"]
    ELSE [raised |-> "NoTranscriptFound", track |-> ""]

\* lines 40-44: prefer English, else the first listed track; the bare except
\* swallows whatever find_transcript raised, and [0] on an empty list raises
SelectTrack(tracks) ==
    IF find_transcript(tracks).raised = "" THEN Ok(find_transcript(tracks).track)
    ELSE IF Len(tracks) > 0 THEN Ok(tracks[1])
    ELSE MapTranscriptError("IndexError")

\* the exception find_transcript raised on the way, if any
Signal(step, exc) == [step |-> step, exc |-> exc]

SelectSignals(tracks) ==
    IF find_transcript(tracks).raised = "" THEN <<>>
    ELSE <<Signal("find_transcript", find_transcript(tracks).raised)>>

\* line 50: ' '.join([part['text'] for part in transcript_data])
RECURSIVE Join(_)
Join(parts) ==
    IF parts = <<>> THEN <<>>
    ELSE IF Len(parts) = 1 THEN parts[1]
    ELSE parts[1] \o <<" ">> \o Join(Tail(parts))

(***************************************************************************)
(* AI Responder: prompts and provider outcomes                             *)
(***************************************************************************)
TranscriptLimit == 4000

\* the part of the prompt that depends on the input (lines 67-74, 94-112, 156-173)
\* variant: the transcript is embedded whole
SummaryPromptWhole(text) == [kind |-> "summary", embedded |-> text]
SummaryPrompt(text) == [kind |-> "summary", embedded |-> Slice(text, 0, TranscriptLimit)]
QuizPrompt(summary) == [kind |-> "quiz", embedded |-> summary]
PairsPrompt(summary) == [kind |-> "pairs", embedded |-> summary]
NoPrompt == [kind |-> "none", embedded |-> <<>>]

\* response.choices[0].message.content: None, a string, or the call raised
ChatRaised == [kind |-> "raise", content |-> <<>>]
ChatNone == [kind |-> "none", content |-> <<>>]
ChatText(c) == [kind |-> "text", content |-> c]
NoReply == [kind |-> "pending", content |-> <<>>]

ChatFailureMsg == <<"RateLimitError">>
NoContentMsg == <<"No content received from AI">>
NoJsonMsg == <<"No JSON found in response">>

\* "not content": None or the empty string
IsFalsy(reply) == reply.kind = "none" \/ (reply.kind = "text" /\ reply.content = <<>>)

(***************************************************************************)
(* Output Normalizer: str.strip, str.find, str.rfind, json.loads           *)
(***************************************************************************)
\* lexical tokens of a reply: braces, comma, whitespace, a prose word, a key
\* opening a nested object, and whole members "questions": [...], "pairs": [...]
LeafMembers == {"Qgood", "Qbad", "P"}
Tokens == {"{", "}", ",", " ", "w", "k:"} \cup LeafMembers
Replies == SeqsUpTo(Tokens, MaxReplyLen)

GoodQuestion == [question |-> "q1", options |-> <<"a", "b", "c", "d">>, answer |-> "b"]
BadQuestion == [question |-> "q2", options |-> <<"a", "b">>, answer |-> "z"]
SomePair == [term |-> "t1", definition |-> "d1"]

JsonList(items) == [kind |-> "list", items |-> items]
Absent == [kind |-> "absent", items |-> <<>>]

MemberKey(tok) ==
    IF tok \in {"Qgood", "Qbad"} THEN "questions"
    ELSE IF tok = "P" THEN "pairs"
    ELSE "k"

MemberValue(tok) ==
    IF tok = "Qgood" THEN JsonList(<<GoodQuestion>>)
    ELSE IF tok = "Qbad" THEN JsonList(<<BadQuestion>>)
    ELSE IF tok = "P" THEN JsonList(<<SomePair>>)
    ELSE [kind |-> "object", items |-> <<>>]

RECURSIVE Strip(_)
Strip(c) ==
    IF c # <<>> /\ Head(c) = " " THEN Strip(Tail(c))
    ELSE IF c # <<>> /\ c[Len(c)] = " " THEN Strip(SubSeq(c, 1, Len(c) - 1))
    ELSE c

\* 0-based index of the first / last occurrence, -1 when there is none
Find(c, ch) ==
    IF \E i \in 1..Len(c) : c[i] = ch
    THEN (CHOOSE i \in 1..Len(c) : c[i] = ch /\ \A j \in 1..(i - 1) : c[j] # ch) - 1
    ELSE -1

RFind(c, ch) ==
    IF \E i \in 1..Len(c) : c[i] = ch
    THEN (CHOOSE i \in 1..Len(c) : c[i] = ch /\ \A j \in (i + 1)..Len(c) : c[j] # ch) - 1
    ELSE -1

\* whitespace between JSON tokens is insignificant
RECURSIVE DropSpaces(_)
DropSpaces(c) ==
    IF c = <<>> THEN <<>>
    ELSE IF Head(c) = " " THEN DropSpaces(Tail(c))
    ELSE <<Head(c)>> \o DropSpaces(Tail(c))

ParseFail == [ok |-> FALSE, next |-> 0, members |-> <<>>]

RECURSIVE ParseObject(_, _)
RECURSIVE ParseMembers(_, _)

\* one member at position i: a whole leaf member, or a key and a nested object
ParseMember(t, i) ==
    IF i > Len(t) THEN ParseFail
    ELSE IF t[i] \in LeafMembers THEN [ok |-> TRUE, next |-> i + 1, members |-> <<t[i]>>]
    ELSE IF t[i] = "k:" THEN
        LET o == ParseObject(t, i + 1)
        IN  IF o.ok THEN [ok |-> TRUE, next |-> o.next, members |-> <<"k:">>] ELSE ParseFail
    ELSE ParseFail

ParseMembers(t, i) ==
    LET m == ParseMember(t, i)
    IN  IF ~m.ok THEN ParseFail
        ELSE IF m.next <= Len(t) /\ t[m.next] = "," THEN
            LET rest == ParseMembers(t, m.next + 1)
            IN  IF rest.ok
                THEN [ok |-> TRUE, next |-> rest.next, members |-> m.members \o rest.members]
                ELSE ParseFail
        ELSE m

ParseObject(t, i) ==
    IF i > Len(t) \/ t[i] # "{" THEN ParseFail
    ELSE IF i + 1 <= Len(t) /\ t[i + 1] = "}"
        THEN [ok |-> TRUE, next |-> i + 2, members |-> <<>>]
    ELSE LET ms == ParseMembers(t, i + 1)
         IN  IF ms.ok /\ ms.next <= Len(t) /\ t[ms.next] = "}"
             THEN [ok |-> TRUE, next |-> ms.next + 1, members |-> ms.members]
             ELSE ParseFail

\* json.loads: ok = FALSE stands for JSONDecodeError; members are the object's
\* top-level members in document order
json_loads(s) ==
    LET t == DropSpaces(s)
        o == ParseObject(t, 1)
    IN  IF o.ok /\ o.next = Len(t) + 1 THEN o ELSE ParseFail

\* data.get(key, []): a repeated key keeps its last value
DictGet(members, key) ==
    LET hits == {k \in 1..Len(members) : MemberKey(members[k]) = key}
    IN  IF hits = {} THEN JsonList(<<>>)
        ELSE MemberValue(members[CHOOSE k \in hits : \A j \in hits : k >= j])

FallbackQuestions ==
    JsonList(<<[question |-> "What is the main topic discussed in the video?",
                options |-> <<"Topic A", "Topic B", "Topic C", "Topic D">>,
                answer |-> "Topic A"]>>)

FallbackPairs ==
    JsonList(<<[term |-> "Key Concept",
                definition |-> "An important idea from the video"]>>)

\* variant: the fallback doubles as the default of data.get
ExtractFieldDefaultsToFallback(content, key, fallback) ==
    LET start_idx == Find(content, "{")
        end_idx == RFind(content, "}") + 1
    IN  IF start_idx # -1 /\ end_idx # 0 THEN
            LET data == json_loads(Slice(content, start_idx, end_idx))
                hits == {k \in 1..Len(data.members) : MemberKey(data.members[k]) = key}
            IN  IF data.ok /\ hits # {} THEN Ok(DictGet(data.members, key))
                ELSE Ok(fallback)
        ELSE Raise(NoJsonMsg)

\* lines 130-148 / 191-208: the inner try block over the stripped content
ExtractField(content, key, fallback) ==
    LET start_idx == Find(content, "{")
        end_idx == RFind(content, "}") + 1
    IN  IF start_idx # -1 /\ end_idx # 0 THEN
            LET data == json_loads(Slice(content, start_idx, end_idx))
            IN  IF data.ok THEN Ok(DictGet(data.members, key))
                ELSE Ok(fallback)
        ELSE Raise(NoJsonMsg)

SummaryPrefix == "Failed to generate summary: "
QuizPrefix == "Failed to generate quiz: "
PairsPrefix == "Failed to generate matching pairs: "

\* variant: the "if not content" check is missing
generate_summary_unchecked(reply) ==
    IF reply.kind = "raise" THEN Raise(<<SummaryPrefix>> \o ChatFailureMsg)
    ELSE Ok(Strip(reply.content))

\* lines 83-89, as a function of what ChatCompletion.create did
generate_summary_with_ai(reply) ==
    IF reply.kind = "raise" THEN Raise(<<SummaryPrefix>> \o ChatFailureMsg)
    ELSE IF IsFalsy(reply) THEN Raise(<<SummaryPrefix>> \o NoContentMsg)
    ELSE Ok(Strip(reply.content))

\* lines 121-151
generate_quiz_with_ai(reply) ==
    IF reply.kind = "raise" THEN Raise(<<QuizPrefix>> \o ChatFailureMsg)
    ELSE IF IsFalsy(reply) THEN Raise(<<QuizPrefix>> \o NoContentMsg)
    ELSE LET r == ExtractField(Strip(reply.content), "questions", FallbackQuestions)
         IN  IF r.ok THEN r ELSE Raise(<<QuizPrefix>> \o r.err)

\* lines 182-211
generate_matching_pairs_with_ai(reply) ==
    IF reply.kind = "raise" THEN Raise(<<PairsPrefix>> \o ChatFailureMsg)
    ELSE IF IsFalsy(reply) THEN Raise(<<PairsPrefix>> \o NoContentMsg)
    ELSE LET r == ExtractField(Strip(reply.content), "pairs", FallbackPairs)
         IN  IF r.ok THEN r ELSE Raise(<<PairsPrefix>> \o r.err)

(***************************************************************************)
(* Requests and responses                                                  *)
(***************************************************************************)
\* a request body: a JSON object with the endpoint's field absent, null or a
\* string; JSON null; a JSON array; or bytes that are not JSON
ObjectBody(present, isnull, value) ==
    [kind |-> "object", present |-> present, isnull |-> isnull, value |-> value]
OtherBody(kind) == [kind |-> kind, present |-> FALSE, isnull |-> FALSE, value |-> <<>>]
NonObjectBodies == {OtherBody("null"), OtherBody("array"), OtherBody("malformed")}
FieldBodies(strings) ==
    {ObjectBody(FALSE, FALSE, <<>>), ObjectBody(TRUE, TRUE, <<>>)}
        \cup {ObjectBody(TRUE, FALSE, v) : v \in strings}

SummarizeBodies ==
    NonObjectBodies \cup FieldBodies({EmptyString} \cup SupportedUrls \cup UnrecognisedUrls)

SomeSummary == <<"s","u","m">>
SummaryBodies == NonObjectBodies \cup FieldBodies({EmptyString, SomeSummary})

NoRequest == OtherBody("none")

\* data = request.get_json(); data.get(<field>): get_json raises on bytes that
\* are not JSON, and None or a list has no attribute 'get'
ReadField(body) ==
    IF body.kind = "malformed" THEN Raise(<<"400 Bad Request">>)
    ELSE IF body.kind # "object" THEN Raise(<<"AttributeError: no attribute 'get'">>)
    ELSE Ok(body)

\* "not url" / "not summary": None (absent or null) or the empty string
FieldIsFalsy(body) == ~body.present \/ body.isnull \/ body.value = <<>>

ErrorResponse(status, msg) ==
    [status |-> status, keys |-> {"error"}, error |-> msg, summary |-> <<>>,
     transcript |-> <<>>, video_id |-> <<>>, questions |-> Absent, pairs |-> Absent]

SummaryResponse(summary, text, vid) ==
    [status |-> 200, keys |-> {"summary", "transcript", "video_id"}, error |-> <<>>,
     summary |-> summary, transcript |-> text, video_id |-> vid,
     questions |-> Absent, pairs |-> Absent]

QuizResponse(questions) ==
    [status |-> 200, keys |-> {"questions"}, error |-> <<>>, summary |-> <<>>,
     transcript |-> <<>>, video_id |-> <<>>, questions |-> questions, pairs |-> Absent]

PairsResponse(pairs) ==
    [status |-> 200, keys |-> {"pairs"}, error |-> <<>>, summary |-> <<>>,
     transcript |-> <<>>, video_id |-> <<>>, questions |-> Absent, pairs |-> pairs]

UrlRequiredMsg == <<"URL is required">>
InvalidUrlMsg == <<"Invalid YouTube URL">>
SummaryRequiredMsg == <<"Summary is required">>

\* variant: an unresolvable URL is not rejected
summarize_unvalidated(body) ==
    LET data == ReadField(body)
        id == extract_video_id(body.value)
    IN  IF ~data.ok
            THEN [respond |-> TRUE, response |-> ErrorResponse(500, data.err), video_id |-> <<>>]
        ELSE IF FieldIsFalsy(body)
            THEN [respond |-> TRUE, response |-> ErrorResponse(400, UrlRequiredMsg), video_id |-> <<>>]
        ELSE [respond |-> FALSE, response |-> ErrorResponse(0, <<>>), video_id |-> id.group1]

\* lines 216-226: what summarize() does before it contacts a provider
\* (respond = TRUE: the handler returns `response` at once)
summarize(body) ==
    LET data == ReadField(body)
        id == extract_video_id(body.value)
    IN  IF ~data.ok
            THEN [respond |-> TRUE, response |-> ErrorResponse(500, data.err), video_id |-> <<>>]
        ELSE IF FieldIsFalsy(body)
            THEN [respond |-> TRUE, response |-> ErrorResponse(400, UrlRequiredMsg), video_id |-> <<>>]
        ELSE IF ~id.found \/ id.group1 = <<>>
            THEN [respond |-> TRUE, response |-> ErrorResponse(400, InvalidUrlMsg), video_id |-> <<>>]
        ELSE [respond |-> FALSE, response |-> ErrorResponse(0, <<>>), video_id |-> id.group1]

\* lines 247-252 and 268-273: the same for the two summary endpoints
generate_quiz(body) ==
    LET data == ReadField(body)
    IN  IF ~data.ok
            THEN [respond |-> TRUE, response |-> ErrorResponse(500, data.err)]
        ELSE IF FieldIsFalsy(body)
            THEN [respond |-> TRUE, response |-> ErrorResponse(400, SummaryRequiredMsg)]
        ELSE [respond |-> FALSE, response |-> ErrorResponse(0, <<>>)]

generate_matching_pairs(body) ==
    LET data == ReadField(body)
    IN  IF ~data.ok
            THEN [respond |-> TRUE, response |-> ErrorResponse(500, data.err)]
        ELSE IF FieldIsFalsy(body)
            THEN [respond |-> TRUE, response |-> ErrorResponse(400, SummaryRequiredMsg)]
        ELSE [respond |-> FALSE, response |-> ErrorResponse(0, <<>>)]

\* variant: the except clause returns what was fetched so far with the error
SummarizeResultPartial(r, text, vid) ==
    IF r.ok THEN SummaryResponse(r.val, text, vid)
    ELSE [ErrorResponse(500, r.err) EXCEPT !.keys = {"error", "transcript"},
                                           !.transcript = text]

\* lines 234-242, 257-263, 278-284: the success body, or the except clause
SummarizeResult(r, text, vid) ==
    IF r.ok THEN SummaryResponse(r.val, text, vid) ELSE ErrorResponse(500, r.err)
QuizResult(r) == IF r.ok THEN QuizResponse(r.val) ELSE ErrorResponse(500, r.err)
PairsResult(r) == IF r.ok THEN PairsResponse(r.val) ELSE ErrorResponse(500, r.err)

(***************************************************************************)
(* What the providers can return                                           *)
(***************************************************************************)
Long(n) == [i \in 1..n |-> IF i % 2 = 1 THEN "a" ELSE "b"]
FragmentTexts == {<<"H","i"," ">>, <<"y","o">>, Long(TranscriptLimit - 3)}
FragmentLists == SeqsUpTo(FragmentTexts, MaxFragments)

SummaryContents == {<<>>, <<" ">>, <<"w">>, <<" ", "w", " ">>}
SummaryReplies == {ChatRaised, ChatNone} \cup {ChatText(c) : c \in SummaryContents}
StructuredReplies == {ChatRaised, ChatNone} \cup {ChatText(c) : c \in Replies}

(***************************************************************************)
(* The state machine                                                       *)
(***************************************************************************)
Init ==
    /\ pc = "idle"
    /\ endpoint = "none"
    /\ request = NoRequest
    /\ video_id = <<>>
    /\ track = ""
    /\ transcript = <<>>
    /\ prompt = NoPrompt
    /\ llm_reply = NoReply
    /\ signals = <<>>
    /\ calls = <<>>
    /\ responses = <<>>

\* a request arrives at an idle worker
Fresh(ep, body) ==
    /\ endpoint' = ep
    /\ request' = body
    /\ UNCHANGED <<track, transcript, llm_reply, signals>>

\* the handler returns: one response
Respond(resp) ==
    /\ responses' = Append(responses, resp)
    /\ pc' = "done"

\* POST /api/summarize up to the call of list_transcripts (lines 216-229, 37)
ReceiveSummarize ==
    /\ pc = "idle"
    /\ \E body \in SummarizeBodies :
        /\ Fresh("summarize", body)
        /\ prompt' = NoPrompt
        /\ LET v == summarize(body)
           IN  IF v.respond
               THEN /\ responses' = <<v.response>>
                    /\ pc' = "done"
                    /\ video_id' = <<>>
                    /\ calls' = <<>>
               ELSE /\ responses' = <<>>
                    /\ pc' = "listing"
                    /\ video_id' = v.video_id
                    /\ calls' = <<"list_transcripts">>

\* list_transcripts raised (lines 37, 53-56, 240-242)
ListTranscriptsRaises ==
    /\ pc = "listing"
    /\ \E exc \in ProviderFailures :
        /\ signals' = Append(signals, Signal("list_transcripts", exc))
        /\ Respond(ErrorResponse(500, MapTranscriptError(exc).err))
        /\ UNCHANGED <<endpoint, request, video_id, track, transcript, prompt, llm_reply, calls>>

\* list_transcripts returned: select a track and call fetch (lines 37-47)
ListTranscriptsReturns ==
    /\ pc = "listing"
    /\ \E tracks \in TrackLists :
        /\ signals' = signals \o SelectSignals(tracks)
        /\ LET sel == SelectTrack(tracks)
           IN  IF sel.ok
               THEN /\ track' = sel.val
                    /\ calls' = Append(calls, "fetch")
                    /\ pc' = "fetching"
                    /\ UNCHANGED responses
               ELSE /\ Respond(ErrorResponse(500, sel.err))
                    /\ UNCHANGED <<track, calls>>
        /\ UNCHANGED <<endpoint, request, video_id, transcript, prompt, llm_reply>>

\* transcript.fetch() raised (lines 47, 53-56, 240-242)
FetchRaises ==
    /\ pc = "fetching"
    /\ \E exc \in ProviderFailures :
        /\ signals' = Append(signals, Signal("fetch", exc))
        /\ Respond(ErrorResponse(500, MapTranscriptError(exc).err))
        /\ UNCHANGED <<endpoint, request, video_id, track, transcript, prompt, llm_reply, calls>>

\* transcript.fetch() returned: join, build the prompt, call the LLM
\* (lines 47-52, 232, 67-81)
FetchReturns ==
    /\ pc = "fetching"
    /\ \E parts \in FragmentLists :
        /\ transcript' = Join(parts)
        /\ prompt' = SummaryPrompt(Join(parts))
        /\ calls' = Append(calls, "chat")
        /\ pc' = "completing"
        /\ UNCHANGED <<endpoint, request, video_id, track, llm_reply, signals, responses>>

\* ChatCompletion.create came back to generate_summary_with_ai (lines 83-89, 234-242)
SummarizeChatReturns ==
    /\ pc = "completing"
    /\ endpoint = "summarize"
    /\ \E reply \in SummaryReplies :
        /\ llm_reply' = reply
        /\ Respond(SummarizeResult(generate_summary_with_ai(reply), transcript, video_id))
        /\ UNCHANGED <<endpoint, request, video_id, track, transcript, prompt, signals, calls>>

\* POST /api/generate-quiz up to the LLM call (lines 247-255, 94-119)
ReceiveQuiz ==
    /\ pc = "idle"
    /\ \E body \in SummaryBodies :
        /\ Fresh("quiz", body)
        /\ video_id' = <<>>
        /\ LET v == generate_quiz(body)
           IN  IF v.respond
               THEN /\ responses' = <<v.response>>
                    /\ pc' = "done"
                    /\ prompt' = NoPrompt
                    /\ calls' = <<>>
               ELSE /\ responses' = <<>>
                    /\ pc' = "completing"
                    /\ prompt' = QuizPrompt(body.value)
                    /\ calls' = <<"chat">>

\* ChatCompletion.create came back to generate_quiz_with_ai (lines 121-151, 257-263)
QuizChatReturns ==
    /\ pc = "completing"
    /\ endpoint = "quiz"
    /\ \E reply \in StructuredReplies :
        /\ llm_reply' = reply
        /\ Respond(QuizResult(generate_quiz_with_ai(reply)))
        /\ UNCHANGED <<endpoint, request, video_id, track, transcript, prompt, signals, calls>>

\* POST /api/generate-matching-pairs up to the LLM call (lines 268-276, 156-180)
ReceivePairs ==
    /\ pc = "idle"
    /\ \E body \in SummaryBodies :
        /\ Fresh("pairs", body)
        /\ video_id' = <<>>
        /\ LET v == generate_matching_pairs(body)
           IN  IF v.respond
               THEN /\ responses' = <<v.response>>
                    /\ pc' = "done"
                    /\ prompt' = NoPrompt
                    /\ calls' = <<>>
               ELSE /\ responses' = <<>>
                    /\ pc' = "completing"
                    /\ prompt' = PairsPrompt(body.value)
                    /\ calls' = <<"chat">>

\* ChatCompletion.create came back to generate_matching_pairs_with_ai
\* (lines 182-211, 278-284)
PairsChatReturns ==
    /\ pc = "completing"
    /\ endpoint = "pairs"
    /\ \E reply \in StructuredReplies :
        /\ llm_reply' = reply
        /\ Respond(PairsResult(generate_matching_pairs_with_ai(reply)))
        /\ UNCHANGED <<endpoint, request, video_id, track, transcript, prompt, signals, calls>>

\* the response is on the wire and the handler's locals go out of scope:
\* nothing of a request survives into the next one
Discard ==
    /\ pc = "done"
    /\ pc' = "idle"
    /\ endpoint' = "none"
    /\ request' = NoRequest
    /\ video_id' = <<>>
    /\ track' = ""
    /\ transcript' = <<>>
    /\ prompt' = NoPrompt
    /\ llm_reply' = NoReply
    /\ signals' = <<>>
    /\ calls' = <<>>
    /\ responses' = <<>>

Next ==
    \/ ReceiveSummarize
    \/ ListTranscriptsRaises
    \/ ListTranscriptsReturns
    \/ FetchRaises
    \/ FetchReturns
    \/ SummarizeChatReturns
    \/ ReceiveQuiz
    \/ QuizChatReturns
    \/ ReceivePairs
    \/ PairsChatReturns
    \/ Discard

Spec == Init /\ [][Next]_vars

(***************************************************************************)
(* Properties                                                              *)
(***************************************************************************)
Range(f) == {f[k] : k \in DOMAIN f}
Done == pc = "done" /\ Len(responses) = 1
Resp == responses[1]
IsErrorBody(r) ==
    /\ r.keys = {"error"}
    /\ r.summary = <<>> /\ r.transcript = <<>> /\ r.video_id = <<>>
    /\ r.questions = Absent /\ r.pairs = Absent
HasText == llm_reply.kind = "text"
Raw == llm_reply.content

\* C1: a non-empty reply without "{" or without "}" yields the one-element
\* fallback in a success body on the quiz and pairs endpoints, never an error
C1_NoBracesGivesFallback ==
    (/\ Done
     /\ endpoint \in {"quiz", "pairs"}
     /\ HasText
     /\ Raw # <<>>
     /\ ("{" \notin Range(Raw) \/ "}" \notin Range(Raw)))
    => /\ Resp.status = 200
       /\ endpoint = "quiz" => Resp = QuizResponse(FallbackQuestions)
       /\ endpoint = "pairs" => Resp = PairsResponse(FallbackPairs)

\* C2: a request whose required input is missing or unusable (no JSON object
\* body, field absent, null or empty, or an unrecognised url) is answered 400
\* with an error body on all three POST endpoints
InputUnusable ==
    \/ request.kind # "object"
    \/ ~request.present
    \/ request.isnull
    \/ request.value = <<>>
    \/ (endpoint = "summarize" /\ request.value \in UnrecognisedUrls)

C2_InvalidInputIs400 ==
    (Done /\ InputUnusable) => (Resp.status = 400 /\ IsErrorBody(Resp))

\* C3: when get_youtube_transcript fails after the provider signalled one of
\* the three unavailable conditions (the no-track video included), the error
\* is exactly the fixed message on a 500; "Failed to get transcript: ..." is
\* reserved for other provider failures
TranscriptStageFailed ==
    /\ Done
    /\ endpoint = "summarize"
    /\ "list_transcripts" \in Range(calls)
    /\ "chat" \notin Range(calls)

LastSignal == signals[Len(signals)]

C3_UnavailableIsOneMessage ==
    (TranscriptStageFailed /\ signals # <<>>)
    => /\ Resp.status = 500
       /\ LastSignal.exc \in Unavailable => Resp.error = NoTranscriptMsg
       /\ Resp.error[1] = FailedTranscriptPrefix => LastSignal.exc = OtherFailure

\* C4: every success response of the quiz endpoint holds a list of questions
\* with exactly 4 options each and an answer among them
IsQuizQuestion(q) ==
    /\ DOMAIN q = {"question", "options", "answer"}
    /\ Len(q.options) = 4
    /\ q.answer \in Range(q.options)

C4_QuestionsWellFormed ==
    (Done /\ endpoint = "quiz" /\ Resp.status = 200)
    => /\ Resp.questions.kind = "list"
       /\ \A k \in 1..Len(Resp.questions.items) : IsQuizQuestion(Resp.questions.items[k])

\* C5: every supported URL shape carrying an identifier resolves to exactly
\* that identifier, never to an empty one
UrlsCarrying(id) ==
    {WatchUrl(id, b, a) : b \in ParamLists, a \in ParamLists}
        \cup {ShortUrl(id, q) : q \in ParamLists}
        \cup {EmbedUrl(id, q) : q \in ParamLists}

C5_SameIdForAllShapes ==
    \A id \in Ids :
        (/\ endpoint = "summarize"
         /\ request.kind = "object"
         /\ request.present /\ ~request.isnull
         /\ request.value \in UrlsCarrying(id))
        => (video_id = id /\ video_id # <<>>)

\* C6: when the first "{" of the reply precedes its last "}", the parsers
\* decode the text from the one to the other and answer the named field, the
\* empty list when the field is absent, and the fallback when decoding fails
FirstOpen == CHOOSE i \in 1..Len(Raw) : Raw[i] = "{" /\ \A j \in 1..(i - 1) : Raw[j] # "{"
LastClose == CHOOSE i \in 1..Len(Raw) : Raw[i] = "}" /\ \A j \in (i + 1)..Len(Raw) : Raw[j] # "}"
Braced ==
    /\ HasText
    /\ "{" \in Range(Raw) /\ "}" \in Range(Raw)
    /\ FirstOpen < LastClose
Payload == SubSeq(Raw, FirstOpen, LastClose)
Decoded == json_loads(Payload)
FieldName == IF endpoint = "quiz" THEN "questions" ELSE "pairs"
FieldPresent == \E k \in 1..Len(Decoded.members) : MemberKey(Decoded.members[k]) = FieldName
Returned == IF endpoint = "quiz" THEN Resp.questions ELSE Resp.pairs
Fallback == IF endpoint = "quiz" THEN FallbackQuestions ELSE FallbackPairs

C6_ParserCases ==
    (Done /\ endpoint \in {"quiz", "pairs"} /\ Braced)
    => /\ Resp.status = 200
       /\ Resp.keys = {FieldName}
       /\ (Decoded.ok /\ FieldPresent) => Returned = DictGet(Decoded.members, FieldName)
       /\ (Decoded.ok /\ ~FieldPresent) => Returned = JsonList(<<>>)
       /\ ~Decoded.ok => Returned = Fallback

C6_Witness ==
    /\ Done /\ endpoint = "quiz" /\ Braced
    /\ Decoded.ok /\ ~FieldPresent
    /\ Resp.questions = JsonList(<<>>)

\* C7: a reply with no content makes each generator fail; the endpoint
\* answers 500 with the generator's message, never a success body
NoContent == llm_reply.kind = "none" \/ (llm_reply.kind = "text" /\ Len(Raw) = 0)
GeneratorPrefix ==
    IF endpoint = "summarize" THEN SummaryPrefix
    ELSE IF endpoint = "quiz" THEN QuizPrefix
    ELSE PairsPrefix

C7_NoContentIsAnError ==
    (Done /\ NoContent)
    => /\ Resp.status = 500
       /\ IsErrorBody(Resp)
       /\ Resp.error = <<GeneratorPrefix>> \o NoContentMsg

C7_Witness ==
    /\ Done /\ endpoint = "summarize" /\ llm_reply.kind = "none"
    /\ Resp.status = 500
    /\ Resp.error = <<SummaryPrefix>> \o NoContentMsg

\* C8: the summary prompt embeds exactly the first 4000 characters of the
\* transcript (all of it when it is no longer), and the success response
\* still carries the whole transcript
C8_PromptCarriesPrefix ==
    (endpoint = "summarize" /\ prompt.kind = "summary")
    => /\ Len(prompt.embedded) <= TranscriptLimit
       /\ Len(prompt.embedded) = Min(Len(transcript), TranscriptLimit)
       /\ \A i \in 1..Len(prompt.embedded) : prompt.embedded[i] = transcript[i]
       /\ (Done /\ Resp.status = 200) => Resp.transcript = transcript

C8_Witness ==
    /\ Done /\ endpoint = "summarize" /\ Resp.status = 200
    /\ Len(transcript) > TranscriptLimit
    /\ Len(prompt.embedded) = TranscriptLimit
    /\ Len(Resp.transcript) = Len(transcript)

\* C9: within a request the providers are contacted in the order list, fetch,
\* chat, each at most once and only after the stage before succeeded
ProviderRaised(step) == \E k \in 1..Len(signals) : signals[k].step = step

C9_StagesInOrderOnce ==
    /\ endpoint = "summarize" =>
        calls \in {<<>>, <<"list_transcripts">>, <<"list_transcripts", "fetch">>,
                   <<"list_transcripts", "fetch", "chat">>}
    /\ endpoint \in {"quiz", "pairs"} => calls \in {<<>>, <<"chat">>}
    /\ endpoint = "none" => calls = <<>>
    /\ "list_transcripts" \in Range(calls) =>
        (request.kind = "object" /\ request.value \in SupportedUrls)
    /\ "fetch" \in Range(calls) => (track \in Languages /\ ~ProviderRaised("list_transcripts"))
    /\ ("chat" \in Range(calls) /\ endpoint = "summarize") =>
        (~ProviderRaised("list_transcripts") /\ ~ProviderRaised("fetch"))
    /\ ("chat" \in Range(calls) /\ endpoint \in {"quiz", "pairs"}) =>
        (request.kind = "object" /\ request.present /\ ~request.isnull /\ request.value # <<>>)

C9_Witness ==
    /\ Done /\ endpoint = "summarize" /\ Resp.status = 200
    /\ calls = <<"list_transcripts", "fetch", "chat">>

\* C10: a request gets exactly one response; when a stage failed it is a
\* non-2xx status whose body holds the error key alone
StageFailed ==
    \/ InputUnusable
    \/ ProviderRaised("list_transcripts")
    \/ ProviderRaised("fetch")
    \/ llm_reply.kind \in {"raise", "none"}

SuccessKeys ==
    IF endpoint = "summarize" THEN {"summary", "transcript", "video_id"}
    ELSE IF endpoint = "quiz" THEN {"questions"}
    ELSE {"pairs"}

C10_OneResponseErrorOnly ==
    /\ Len(responses) <= 1
    /\ pc = "done" <=> Len(responses) = 1
    /\ Done =>
        /\ Resp.status \in {200, 400, 500}
        /\ Resp.status = 200 => (Resp.keys = SuccessKeys /\ Resp.error = <<>>)
        /\ Resp.status # 200 => (IsErrorBody(Resp) /\ Resp.error # <<>>)
        /\ StageFailed => Resp.status # 200

C10_Witness ==
    /\ Done /\ endpoint = "summarize"
    /\ transcript # <<>>
    /\ llm_reply.kind = "raise"
    /\ Resp.status = 500 /\ IsErrorBody(Resp)

====
